---- MODULE Spec2Model ----
(***************************************************************************)
(* Model of the text anonymizer of teseo-data (scripts/anonymizer):        *)
(*   detector.ts   (src/unnamed/part_004)  PATTERNS, detectEntities        *)
(*   faker.ts                              entityMaps, getFakeValue, ...   *)
(*   anonymizer.ts (src/unnamed/part_005)  anonymizeText[Chunked]          *)
(*   index.ts                              main, testMode                  *)
(* A text is a sequence of one-character strings (UTF-16 code units);      *)
(* offsets are 0-based as in JavaScript, so the character at offset i of   *)
(* text t is t[i + 1].                                                     *)
(***************************************************************************)
EXTENDS Integers, Sequences, FiniteSets, TLC

(***************************************************************************)
(* Characters and character classes of the regular expressions.            *)
(***************************************************************************)
Upper ==
    {"A","B","C","D","E","F","G","H","I","J","K","L","M",
     "N","O","P","Q","R","S","T","U","V","W","X","Y","Z"}

Lower ==
    {"a","b","c","d","e","f","g","h","i","j","k","l","m",
     "n","o","p","q","r","s","t","u","v","w","x","y","z"}

Digit == {"0","1","2","3","4","5","6","7","8","9"}

\* [àèéìòù] of the PERSON pattern
Accented == {"à","è","é","ì","ò","ù"}

\* \s restricted to the white space the inputs use
WhiteSpace == {" ", "\t", "\n", "\r"}

\* \w, which decides \b
WordChar == Upper \cup Lower \cup Digit \cup {"_"}

(***************************************************************************)
(* Regular expressions as syntax trees.  max = -1 stands for "no upper     *)
(* limit".                                                                 *)
(***************************************************************************)
Cls(S) == [k |-> "cls", s |-> S]

Lit(c) == Cls({c})

Cat(rs) == [k |-> "cat", rs |-> rs]

Alt(rs) == [k |-> "alt", rs |-> rs]

Rep(r, min, max) == [k |-> "rep", r |-> r, min |-> min, max |-> max]

Opt(r) == Rep(r, 0, 1)

Plus(r) == Rep(r, 1, -1)

WordBoundary == [k |-> "wb"]

(***************************************************************************)
(* Sequence helpers.                                                       *)
(***************************************************************************)
Contains(s, x) == \E j \in 1..Len(s) : s[j] = x

\* s followed by the elements of t that are not in it, order kept (s and t
\* hold no element twice)
AppendNew(s, t) == s \o SelectSeq(t, LAMBDA x : ~Contains(s, x))

\* String.prototype.substring(from, to) for 0 <= from, to clamped to the length
Substring(t, from, to) ==
    LET hi == IF to > Len(t) THEN Len(t) ELSE to
        lo == IF from > Len(t) THEN Len(t) ELSE from
    IN  IF lo >= hi THEN <<>> ELSE SubSeq(t, lo + 1, hi)

\* String.prototype.substring(from)
SubstringFrom(t, from) == Substring(t, from, Len(t))

(***************************************************************************)
(* The backtracking matcher of ECMAScript.  MatchEnds(r, t, i) is the      *)
(* sequence of end offsets at which r can stop when started at offset i,   *)
(* in the order in which backtracking tries them (greedy quantifiers:      *)
(* longest first; alternatives: left to right).  An end offset reached a   *)
(* second time is dropped: without captures or back-references the         *)
(* continuation from an offset does not depend on how it was reached.      *)
(***************************************************************************)
IsWordCharAt(t, i) == i >= 0 /\ i < Len(t) /\ t[i + 1] \in WordChar

RECURSIVE MatchEnds(_, _, _)
RECURSIVE MatchCat(_, _, _, _)
RECURSIVE MatchAlt(_, _, _, _)
RECURSIVE MatchRep(_, _, _, _, _)
RECURSIVE MatchRepFrom(_, _, _, _, _, _, _, _)

MatchEnds(r, t, i) ==
    CASE r.k = "cls" -> IF i < Len(t) /\ t[i + 1] \in r.s THEN <<i + 1>> ELSE <<>>
      [] r.k = "wb"  -> IF IsWordCharAt(t, i - 1) # IsWordCharAt(t, i) THEN <<i>> ELSE <<>>
      [] r.k = "cat" -> MatchCat(r.rs, 1, t, <<i>>)
      [] r.k = "alt" -> MatchAlt(r.rs, 1, t, i)
      [] r.k = "rep" -> MatchRep(r.r, r.min, r.max, t, i)

\* rs[j..] matched from each of starts[lo..hi], in order (the range is halved
\* to keep the recursion shallow)
RECURSIVE FlatCat(_, _, _, _, _, _)
FlatCat(rs, j, t, starts, lo, hi) ==
    IF lo > hi THEN <<>>
    ELSE IF lo = hi THEN MatchCat(rs, j + 1, t, MatchEnds(rs[j], t, starts[lo]))
    ELSE LET mid == (lo + hi) \div 2
         IN  AppendNew(FlatCat(rs, j, t, starts, lo, mid),
                       FlatCat(rs, j, t, starts, mid + 1, hi))

MatchCat(rs, j, t, starts) ==
    IF j > Len(rs) \/ starts = <<>> THEN starts
    ELSE FlatCat(rs, j, t, starts, 1, Len(starts))

MatchAlt(rs, j, t, i) ==
    IF j > Len(rs) THEN <<>>
    ELSE AppendNew(MatchEnds(rs[j], t, i), MatchAlt(rs, j + 1, t, i))

\* RepeatMatcher: one more iteration first (greedy), then stopping here if
\* min is reached; an iteration that matches the empty string once min is
\* reached is rejected.  ends[lo..hi] are the ends of the iteration started
\* at i.
MatchRepFrom(r, min, max, t, i, ends, lo, hi) ==
    IF lo > hi THEN <<>>
    ELSE IF lo = hi
         THEN IF min = 0 /\ ends[lo] = i THEN <<>>
              ELSE MatchRep(r, IF min = 0 THEN 0 ELSE min - 1,
                            IF max = -1 THEN -1 ELSE max - 1, t, ends[lo])
    ELSE LET mid == (lo + hi) \div 2
         IN  AppendNew(MatchRepFrom(r, min, max, t, i, ends, lo, mid),
                       MatchRepFrom(r, min, max, t, i, ends, mid + 1, hi))

\* A quantified character class needs no backtracking search: it can stop
\* after every number of characters from the longest run allowed down to min.
RunLength(S, t, i) ==
    LET stops == {p \in i..Len(t) : p = Len(t) \/ t[p + 1] \notin S}
    IN  (CHOOSE p \in stops : \A q \in stops : p <= q) - i

MatchRepCls(S, min, max, t, i) ==
    LET run == RunLength(S, t, i)
        most == IF max # -1 /\ max < run THEN max ELSE run
    IN  IF most < min THEN <<>>
        ELSE [j \in 1..(most - min + 1) |-> i + most - j + 1]

MatchRep(r, min, max, t, i) ==
    IF r.k = "cls" THEN MatchRepCls(r.s, min, max, t, i)
    ELSE IF min = 0 /\ r.k = "rep" /\ r.r.k = "cls" /\ r.min = 0 /\ r.max = 1
         \* (?:[c]?){0,max}: an iteration that takes no character is
         \* rejected, so the ends are those of [c]{0,max}
         THEN MatchRepCls(r.r.s, 0, max, t, i)
    ELSE IF max = 0 THEN <<i>>
    ELSE LET ends == MatchEnds(r, t, i)
         IN  AppendNew(MatchRepFrom(r, min, max, t, i, ends, 1, Len(ends)),
                       IF min = 0 THEN <<i>> ELSE <<>>)

(***************************************************************************)
(* detector.ts: PATTERNS.                                                  *)
(***************************************************************************)
Letter == Upper \cup Lower

AlNum == Letter \cup Digit

Sep == WhiteSpace \cup {".", "-"}

\* /[a-zA-Z0-9._%+-]+@[a-zA-Z0-9.-]+\.[a-zA-Z]{2,}/g
EMAIL_ADDRESS ==
    Cat(<< Plus(Cls(AlNum \cup {".", "_", "%", "+", "-"})),
           Lit("@"),
           Plus(Cls(AlNum \cup {".", "-"})),
           Lit("."),
           Rep(Cls(Letter), 2, -1) >>)

\* /(?:\+39\s?)?(?:3[0-9]{2}[\s.-]?[0-9]{6,7}|0[0-9]{1,3}[\s.-]?[0-9]{6,8})/g
PHONE_NUMBER ==
    Cat(<< Opt(Cat(<< Lit("+"), Lit("3"), Lit("9"), Opt(Cls(WhiteSpace)) >>)),
           Alt(<< Cat(<< Lit("3"), Rep(Cls(Digit), 2, 2), Opt(Cls(Sep)),
                         Rep(Cls(Digit), 6, 7) >>),
                  Cat(<< Lit("0"), Rep(Cls(Digit), 1, 3), Opt(Cls(Sep)),
                         Rep(Cls(Digit), 6, 8) >>) >>) >>)

\* /[A-Z]{2}[0-9]{2}[A-Z0-9]{4}[0-9]{7}(?:[A-Z0-9]?){0,16}/gi
IBAN_CODE ==
    Cat(<< Rep(Cls(Letter), 2, 2), Rep(Cls(Digit), 2, 2), Rep(Cls(AlNum), 4, 4),
           Rep(Cls(Digit), 7, 7), Rep(Opt(Cls(AlNum)), 0, 16) >>)

\* /[A-Z]{6}[0-9]{2}[A-Z][0-9]{2}[A-Z][0-9]{3}[A-Z]/gi
FISCAL_CODE ==
    Cat(<< Rep(Cls(Letter), 6, 6), Rep(Cls(Digit), 2, 2), Cls(Letter),
           Rep(Cls(Digit), 2, 2), Cls(Letter), Rep(Cls(Digit), 3, 3),
           Cls(Letter) >>)

\* /(?:\d{4}[\s-]?){3}\d{4}/g
CREDIT_CARD ==
    Cat(<< Rep(Cat(<< Rep(Cls(Digit), 4, 4), Opt(Cls(WhiteSpace \cup {"-"})) >>), 3, 3),
           Rep(Cls(Digit), 4, 4) >>)

\* /\b[A-Z][a-zàèéìòù]+(?:\s+[A-Z][a-zàèéìòù]+)+\b/g
PERSON ==
    LET word == Cat(<< Cls(Upper), Plus(Cls(Lower \cup Accented)) >>)
    IN  Cat(<< WordBoundary, word,
               Plus(Cat(<< Plus(Cls(WhiteSpace)), word >>)),
               WordBoundary >>)

\* config.ts: ENTITY_TYPES
ENTITY_TYPES ==
    {"PERSON", "EMAIL_ADDRESS", "PHONE_NUMBER", "IBAN_CODE", "FISCAL_CODE", "CREDIT_CARD"}

\* Object.entries(PATTERNS): the keys in the order the literal writes them
PatternOrder ==
    <<"EMAIL_ADDRESS", "PHONE_NUMBER", "IBAN_CODE", "FISCAL_CODE", "CREDIT_CARD", "PERSON">>

PATTERNS ==
    [type \in ENTITY_TYPES |->
        CASE type = "EMAIL_ADDRESS" -> EMAIL_ADDRESS
          [] type = "PHONE_NUMBER"  -> PHONE_NUMBER
          [] type = "IBAN_CODE"     -> IBAN_CODE
          [] type = "FISCAL_CODE"   -> FISCAL_CODE
          [] type = "CREDIT_CARD"   -> CREDIT_CARD
          [] type = "PERSON"        -> PERSON]

(***************************************************************************)
(* detector.ts: detectEntities.                                            *)
(***************************************************************************)
\* FirstMatch looks through the offsets lo..hi in ascending order for one
\* at which the pattern matches, with the end backtracking finds first (the
\* range is halved to keep the recursion shallow).
RECURSIVE FirstMatch(_, _, _, _)
FirstMatch(pattern, t, lo, hi) ==
    IF lo > hi THEN [found |-> FALSE, index |-> 0, end |-> 0]
    ELSE IF lo = hi
         THEN LET ends == MatchEnds(pattern, t, lo)
              IN  IF ends # <<>>
                  THEN [found |-> TRUE, index |-> lo, end |-> Head(ends)]
                  ELSE [found |-> FALSE, index |-> 0, end |-> 0]
    ELSE LET mid == (lo + hi) \div 2
             left == FirstMatch(pattern, t, lo, mid)
         IN  IF left.found THEN left ELSE FirstMatch(pattern, t, mid + 1, hi)

\* exec leaving lastIndex one character behind the start of the match
ExecFromNextChar(pattern, t, lastIndex) ==
    LET m == FirstMatch(pattern, t, lastIndex, Len(t))
    IN  IF m.found
        THEN [found |-> TRUE, match0 |-> Substring(t, m.index, m.end),
              index |-> m.index, lastIndex |-> m.index + 1]
        ELSE [found |-> FALSE, match0 |-> <<>>, index |-> 0, lastIndex |-> 0]

\* RegExp.prototype.exec of a global pattern: the match array (match[0] and
\* match.index) of the first match at or after lastIndex, and the lastIndex
\* it leaves: the end of the match, or 0 with null when there is none.
Exec(pattern, t, lastIndex) ==
    LET m == FirstMatch(pattern, t, lastIndex, Len(t))
    IN  IF m.found
        THEN [found |-> TRUE, match0 |-> Substring(t, m.index, m.end),
              index |-> m.index, lastIndex |-> m.end]
        ELSE [found |-> FALSE, match0 |-> <<>>, index |-> 0, lastIndex |-> 0]

\* the entity with its end on the last character instead of behind it
DetectedEntityEndsEarly(type, match0, index) ==
    [type |-> type, value |-> match0, start |-> index, end |-> index + Len(match0) - 1]

\* the object pushed at lines 32-37
DetectedEntity(type, match0, index) ==
    [type |-> type, value |-> match0, start |-> index, end |-> index + Len(match0)]

\* The while loop of lines 31-38 for one pattern.  A match of the empty
\* string would leave lastIndex where it was and the loop would push the
\* same entity for ever: the model pushes it once and stops.
RECURSIVE ExecAll(_, _, _, _)
ExecAll(type, t, lastIndex, found) ==
    LET match == Exec(PATTERNS[type], t, lastIndex)
    IN  IF ~match.found THEN found
        ELSE LET pushed == Append(found, DetectedEntity(type, match.match0, match.index))
             IN  IF match.lastIndex = lastIndex /\ match.match0 = <<>> THEN pushed
                 ELSE ExecAll(type, t, match.lastIndex, pushed)

\* the lastIndex of the six patterns as the module is loaded
NewLastIndex == [type \in ENTITY_TYPES |-> 0]

\* line 28: pattern.lastIndex = 0, whatever the pattern was left with
ResetLastIndex(stored) == 0

\* The for loop of lines 26-39 from the j-th pattern on, in the order of
\* Object.entries(PATTERNS), the patterns having been left with the
\* lastIndex stored: the entities pushed.
RECURSIVE RunPatterns(_, _, _)
RunPatterns(t, stored, j) ==
    IF j > Len(PatternOrder) THEN <<>>
    ELSE ExecAll(PatternOrder[j], t, ResetLastIndex(stored[PatternOrder[j]]), <<>>)
             \o RunPatterns(t, stored, j + 1)

\* The lastIndex a pattern has when its while loop is over, found being the
\* entities the call pushed: the one left by the exec that ended the loop,
\* which started where the last match of the pattern ended (or where line
\* 28 put lastIndex, without a match).
LastIndexAfter(type, t, stored, found) ==
    LET mine == SelectSeq(found, LAMBDA e : e.type = type)
        from == IF mine = <<>> THEN ResetLastIndex(stored[type])
                ELSE CHOOSE p \in {mine[k].end : k \in 1..Len(mine)} :
                         \A k \in 1..Len(mine) : mine[k].end <= p
    IN  Exec(PATTERNS[type], t, from).lastIndex

\* the entities pushed by the for loop of a first call, before the sort
Collect(t, j) == RunPatterns(t, NewLastIndex, j)

\* the entities left in the order they were found in
SortByStartDescForgotten(es, sorted) == es

\* Array.prototype.sort is stable: e goes behind every element that does not
\* compare after it under (a, b) => b.start - a.start.
RECURSIVE InsertSorted(_, _)
InsertSorted(sorted, e) ==
    IF sorted = <<>> THEN <<e>>
    ELSE IF Head(sorted).start >= e.start
         THEN <<Head(sorted)>> \o InsertSorted(Tail(sorted), e)
         ELSE <<e>> \o sorted

RECURSIVE SortByStartDesc(_, _)
SortByStartDesc(es, sorted) ==
    IF es = <<>> THEN sorted
    ELSE SortByStartDesc(Tail(es), InsertSorted(sorted, Head(es)))

\* lines 23-43 as a first call: the value returned
detectEntities(t) == SortByStartDesc(Collect(t, 1), <<>>)

\* lines 23-43 with the patterns as earlier calls left them: the value
\* returned
detectEntitiesWith(t, stored) == SortByStartDesc(RunPatterns(t, stored, 1), <<>>)

(***************************************************************************)
(* faker.ts.  The values the faker library returns are not part of the     *)
(* repository: each generator is a choice among sample values of the       *)
(* category's shape, shorter and longer than the originals they replace.   *)
(***************************************************************************)
\* faker.person.fullName()
FakePersons == {<<"U","g","o"," ","B","o">>,
                <<"L","u","i","s","a"," ","V","e","r","d","i","n","i">>}

\* faker.internet.email()
FakeEmails == {<<"u","@","c",".","i","o">>,
               <<"l","u","i","s","a",".","v","e","r","d","i","n","i","@","m","a","i","l",".","c","o","m">>}

\* faker.phone.number()
FakePhones == {<<"0","6","1","2","3","4","5","6">>,
               <<"+","3","9"," ","3","4","7"," ","7","6","5","4","3","2","1">>}

\* faker.finance.iban({ countryCode: "IT" })
FakeIbans == {<<"I","T","2","8","W","0","3","0","0","2","0","3","2","8","0","1","2","3","4","5","6","7","8","9","0","1","2">>}

\* faker.finance.creditCardNumber()
FakeCards == {<<"5","1","0","5","1","0","5","1","0","5","1","0","5","1","0","0">>}

\* line 36: letters
letters ==
    <<"A","B","C","D","E","F","G","H","I","J","K","L","M",
      "N","O","P","Q","R","S","T","U","V","W","X","Y","Z">>

\* line 37-38: randomLetter, for r = Math.floor(Math.random() * letters.length)
randomLetter(r) == IF r + 1 \in DOMAIN letters THEN letters[r + 1] ELSE "A"

\* line 39: randomDigit, for r = Math.floor(Math.random() * 10)
randomDigit(r) == <<"0","1","2","3","4","5","6","7","8","9">>[r + 1]

\* lines 41-58: the sixteen draws in the order of the concatenation
generateFakeFiscalCode(r) ==
    << randomLetter(r[1]), randomLetter(r[2]), randomLetter(r[3]),
       randomLetter(r[4]), randomLetter(r[5]), randomLetter(r[6]),
       randomDigit(r[7]), randomDigit(r[8]), randomLetter(r[9]),
       randomDigit(r[10]), randomDigit(r[11]), randomLetter(r[12]),
       randomDigit(r[13]), randomDigit(r[14]), randomDigit(r[15]),
       randomLetter(r[16]) >>

\* the runs of Math.random() the model draws: all lowest, all highest
RandomRuns ==
    { [j \in 1..16 |-> 0],
      [j \in 1..16 |-> IF j \in {7, 8, 10, 11, 13, 14, 15} THEN 9 ELSE 25] }

\* a type outside ENTITY_TYPES, which only a caller that bypasses the type
\* checker can pass
UnknownTypes == {"LOCATION"}

AllTypes == ENTITY_TYPES \cup UnknownTypes

TypeName(type) ==
    CASE type = "LOCATION" -> <<"L","O","C","A","T","I","O","N">>
      [] OTHER -> <<"?">>

\* lines 16-33: the set of values generateFakeValue(type) may return
generateFakeValue(type) ==
    CASE type = "PERSON"        -> FakePersons
      [] type = "EMAIL_ADDRESS" -> FakeEmails
      [] type = "PHONE_NUMBER"  -> FakePhones
      [] type = "IBAN_CODE"     -> FakeIbans
      [] type = "FISCAL_CODE"   -> {generateFakeFiscalCode(r) : r \in RandomRuns}
      [] type = "CREDIT_CARD"   -> FakeCards
      [] OTHER -> {<<"[","R","E","D","A","C","T","E","D","_">> \o TypeName(type) \o <<"]">>}

\* a Map<string, string> is a function from its keys; new Map() has none
EmptyMap == [key \in {} |-> <<>>]

MapHas(map, key) == key \in DOMAIN map

MapSet(map, key, value) == [k \in DOMAIN map \cup {key} |-> IF k = key THEN value ELSE map[k]]

\* lines 7-14: entityMaps as constructed
NewEntityMaps == [type \in ENTITY_TYPES |-> EmptyMap]

\* getFakeValue storing a value made from the original one (its first
\* character) instead of the generated one
getFakeValueFromOriginal(maps, type, originalValue, generated) ==
    IF type \notin DOMAIN maps
    THEN [threw |-> TRUE, value |-> <<>>, maps |-> maps]
    ELSE LET stored == IF ~MapHas(maps[type], originalValue)
                       THEN [maps EXCEPT ![type] =
                                MapSet(@, originalValue, SubSeq(originalValue, 1, 1))]
                       ELSE maps
         IN  [threw |-> FALSE, value |-> stored[type][originalValue], maps |-> stored]

\* getFakeValue keeping every pair in the map of PERSON
getFakeValueInOneMap(maps, type, originalValue, generated) ==
    IF type \notin DOMAIN maps
    THEN [threw |-> TRUE, value |-> <<>>, maps |-> maps]
    ELSE LET stored == IF ~MapHas(maps["PERSON"], originalValue)
                       THEN [maps EXCEPT !["PERSON"] = MapSet(@, originalValue, generated)]
                       ELSE maps
         IN  [threw |-> FALSE, value |-> stored["PERSON"][originalValue], maps |-> stored]

\* getFakeValue without the test of line 64: every call generates and stores
getFakeValueAlwaysStores(maps, type, originalValue, generated) ==
    IF type \notin DOMAIN maps
    THEN [threw |-> TRUE, value |-> <<>>, maps |-> maps]
    ELSE LET stored == [maps EXCEPT ![type] = MapSet(@, originalValue, generated)]
         IN  [threw |-> FALSE, value |-> stored[type][originalValue], maps |-> stored]

\* getFakeValue returning the generated value on a hit too
getFakeValueReturnsGenerated(maps, type, originalValue, generated) ==
    IF type \notin DOMAIN maps
    THEN [threw |-> TRUE, value |-> <<>>, maps |-> maps]
    ELSE LET stored == IF ~MapHas(maps[type], originalValue)
                       THEN [maps EXCEPT ![type] = MapSet(@, originalValue, generated)]
                       ELSE maps
         IN  [threw |-> FALSE, value |-> generated, maps |-> stored]

\* lines 61-69, with the value generateFakeValue(type) returns when it is
\* called.  entityMaps[type] is undefined for a type that is no key of
\* entityMaps, and map.has then throws a TypeError.
getFakeValue(maps, type, originalValue, generated) ==
    IF type \notin DOMAIN maps
    THEN [threw |-> TRUE, value |-> <<>>, maps |-> maps]
    ELSE LET stored == IF ~MapHas(maps[type], originalValue)
                       THEN [maps EXCEPT ![type] = MapSet(@, originalValue, generated)]
                       ELSE maps
         IN  [threw |-> FALSE, value |-> stored[type][originalValue], maps |-> stored]

\* resetMaps that forgets one map
resetMapsButEmail(maps) ==
    [type \in DOMAIN maps |-> IF type = "EMAIL_ADDRESS" THEN maps[type] ELSE EmptyMap]

\* resetMaps that clears nothing
resetMapsNothing(maps) == maps

\* lines 71-75
resetMaps(maps) == [type \in DOMAIN maps |-> EmptyMap]

(***************************************************************************)
(* anonymizer.ts.                                                          *)
(***************************************************************************)
\* config.ts line 3 sets CHUNK_SIZE to 80_000; the model scales it down so
\* that the sample texts reach beyond one chunk.
CHUNK_SIZE == 16

\* lines 13-14: one substitution
Substitute(result, entity, fakeValue) ==
    Substring(result, 0, entity.start) \o fakeValue \o SubstringFrom(result, entity.end)

\* the chunks of a loop that runs while i <= text.length
RECURSIVE SplitChunksInclusive(_, _)
SplitChunksInclusive(t, i) ==
    IF i <= Len(t)
    THEN <<Substring(t, i, i + CHUNK_SIZE)>> \o SplitChunksInclusive(t, i + CHUNK_SIZE)
    ELSE <<>>

\* the chunks with the last, shorter one left out
RECURSIVE SplitChunksWhole(_, _)
SplitChunksWhole(t, i) ==
    IF i + CHUNK_SIZE <= Len(t)
    THEN <<Substring(t, i, i + CHUNK_SIZE)>> \o SplitChunksWhole(t, i + CHUNK_SIZE)
    ELSE <<>>

\* lines 23-25: the chunks pushed from offset i on
RECURSIVE SplitChunks(_, _)
SplitChunks(t, i) ==
    IF i < Len(t) THEN <<Substring(t, i, i + CHUNK_SIZE)>> \o SplitChunks(t, i + CHUNK_SIZE)
    ELSE <<>>

\* join with its default separator, the comma
RECURSIVE JoinWithComma(_, _)
JoinWithComma(parts, sep) ==
    IF parts = <<>> THEN <<>>
    ELSE IF Len(parts) = 1 THEN parts[1]
    ELSE parts[1] \o <<",">> \o JoinWithComma(Tail(parts), sep)

\* Array.prototype.join(sep)
RECURSIVE Join(_, _)
Join(parts, sep) ==
    IF parts = <<>> THEN <<>>
    ELSE IF Len(parts) = 1 THEN parts[1]
    ELSE parts[1] \o sep \o Join(Tail(parts), sep)

(***************************************************************************)
(* index.ts.                                                               *)
(***************************************************************************)
\* String.prototype.split("\n"): the pieces between the line feeds (one
\* piece, the empty string, for the empty text)
RECURSIVE SplitLines(_, _)
SplitLines(t, piece) ==
    IF t = <<>> THEN <<piece>>
    ELSE IF Head(t) = "\n" THEN <<piece>> \o SplitLines(Tail(t), <<>>)
    ELSE SplitLines(Tail(t), Append(piece, Head(t)))

\* lines 36-37: text.split("\n").slice(0, n).join("\n") for n >= 0
FirstNLines(t, n) ==
    LET all == SplitLines(t, <<>>)
        kept == IF n < Len(all) THEN SubSeq(all, 1, n) ELSE all
    IN  Join(kept, <<"\n">>)

(***************************************************************************)
(* fetch-langfuse: config.ts, csv.ts, state.ts.                            *)
(***************************************************************************)
\* config.ts lines 6-28: two of the twenty-one categories
CATEGORIES == {<<"A","l","t","r","o">>,
               <<"M","i","s","u","r","a"," ","1",".","1">>}

\* config.ts lines 1-3 and csv.ts lines 52, 100: the names of the files in
\* DATA_DIR
STATE_FILE == <<"f","e","t","c","h","_","s","t","a","t","e",".","j","s","o","n">>

UNCATEGORIZED_FILE == <<"u","n","c","a","t","e","g","o","r","i","z","e","d","_","q","u","e","s","t","i","o","n","s",".","c","s","v">>

AggregateFile == <<"c","a","t","e","g","o","r","i","e","s","_","s","t","a","t","s",".","c","s","v">>

\* csv.ts lines 4-10: getDateString on the day-th day of January 2026
getDateString(day) ==
    <<"2","0","2","6","_","0","1","_">> \o <<"0">> \o <<randomDigit(day)>>

\* the daily file of csv.ts line 52
DailyFile(dateString) == <<"c","a","t","e","g","o","r","i","e","s","_","s","t","a","t","s","_">> \o dateString \o <<".","c","s","v">>

\* String.prototype.startsWith and endsWith
StartsWith(str, prefix) ==
    Len(str) >= Len(prefix) /\ SubSeq(str, 1, Len(prefix)) = prefix

EndsWith(str, suffix) ==
    Len(str) >= Len(suffix) /\ SubSeq(str, Len(str) - Len(suffix) + 1, Len(str)) = suffix

\* the template literal `${n}` of a number n >= 0
RECURSIVE NumberToString(_)
NumberToString(num) ==
    IF num < 10 THEN <<randomDigit(num)>>
    ELSE NumberToString(num \div 10) \o <<randomDigit(num % 10)>>

\* the value of a decimal digit
DigitValue(c) == CHOOSE d \in 0..9 : randomDigit(d) = c

\* parseInt(str, 10) of the digits of str from position p on, acc being the
\* value of the digits read so far
RECURSIVE ParseDigits(_, _, _)
ParseDigits(str, p, acc) ==
    IF p > Len(str) \/ str[p] \notin Digit THEN acc
    ELSE ParseDigits(str, p + 1, acc * 10 + DigitValue(str[p]))

\* the position of the first character of str, from p on, that is no white
\* space
RECURSIVE SkipWhiteSpace(_, _)
SkipWhiteSpace(str, p) ==
    IF p <= Len(str) /\ str[p] \in WhiteSpace THEN SkipWhiteSpace(str, p + 1) ELSE p

\* parseInt(str, 10): white space skipped, a sign, then the digits up to the
\* first character that is none; NaN without a digit
parseInt(str) ==
    LET p == SkipWhiteSpace(str, 1)
        signed == p <= Len(str) /\ str[p] \in {"+", "-"}
        q == IF signed THEN p + 1 ELSE p
    IN  IF q > Len(str) \/ str[q] \notin Digit THEN [isNaN |-> TRUE, value |-> 0]
        ELSE [isNaN |-> FALSE,
              value |-> IF signed /\ str[p] = "-" THEN 0 - ParseDigits(str, q, 0)
                        ELSE ParseDigits(str, q, 0)]

\* String.prototype.split(sep) for a separator of one character
RECURSIVE Split(_, _, _)
Split(str, sep, piece) ==
    IF str = <<>> THEN <<piece>>
    ELSE IF Head(str) = sep THEN <<piece>> \o Split(Tail(str), sep, <<>>)
    ELSE Split(Tail(str), sep, Append(piece, Head(str)))

\* String.prototype.trim
RECURSIVE TrimEnd(_)
TrimEnd(str) ==
    IF str # <<>> /\ str[Len(str)] \in WhiteSpace THEN TrimEnd(SubSeq(str, 1, Len(str) - 1))
    ELSE str

Trim(str) == TrimEnd(SubSeq(str, SkipWhiteSpace(str, 1), Len(str)))

\* a Map<string, number> in insertion order: a sequence of rows
\* [category, num_questions]; map.get(category) || 0
GetOrZero(rows, category) ==
    LET at == {k \in 1..Len(rows) : rows[k].category = category}
    IN  IF at = {} THEN 0 ELSE rows[CHOOSE k \in at : TRUE].num_questions

\* map.set(category, map.get(category) || 0 + count)
AddCount(rows, category, count) ==
    IF \E k \in 1..Len(rows) : rows[k].category = category
    THEN [k \in 1..Len(rows) |->
             IF rows[k].category = category
             THEN [rows[k] EXCEPT !.num_questions = @ + count] ELSE rows[k]]
    ELSE Append(rows, [category |-> category, num_questions |-> count])

\* index.ts lines 91-95: categoryMap of the classified questions
RECURSIVE CountCategories(_, _)
CountCategories(classified, rows) ==
    IF classified = <<>> THEN rows
    ELSE CountCategories(Tail(classified), AddCount(rows, Head(classified), 1))

\* sort((a, b) => b.num_questions - a.num_questions), which is stable
RECURSIVE InsertByCount(_, _)
InsertByCount(sorted, row) ==
    IF sorted = <<>> THEN <<row>>
    ELSE IF Head(sorted).num_questions >= row.num_questions
         THEN <<Head(sorted)>> \o InsertByCount(Tail(sorted), row)
         ELSE <<row>> \o sorted

RECURSIVE SortByCountDesc(_, _)
SortByCountDesc(rows, sorted) ==
    IF rows = <<>> THEN sorted
    ELSE SortByCountDesc(Tail(rows), InsertByCount(sorted, Head(rows)))

\* csv.ts lines 47-50 and 95-98, joined as at lines 53 and 100: the text of
\* a statistics file
StatsText(rows) ==
    Join(<<<<"c","a","t","e","g","o","r","y",",","n","u","m","_","q","u","e","s","t","i","o","n","s">>>>
             \o [k \in 1..Len(rows) |->
                    rows[k].category \o <<",">> \o NumberToString(rows[k].num_questions)],
         <<"\n">>)

\* csv.ts lines 74-87: the rows of one file added to categoryTotals, from
\* line i of lines on
RECURSIVE AddLines(_, _, _)
AddLines(totals, lines, i) ==
    IF i > Len(lines) THEN totals
    ELSE LET fields == Split(lines[i], ",", <<>>)
             category == fields[1]
             countStr == IF Len(fields) >= 2 THEN fields[2] ELSE <<>>
         IN  IF lines[i] = <<>> \/ category = <<>> \/ countStr = <<>>
                \/ parseInt(countStr).isNaN
             THEN AddLines(totals, lines, i + 1)
             ELSE AddLines(AddCount(totals, category, parseInt(countStr).value),
                           lines, i + 1)

\* csv.ts lines 73-87 for one file: the header is skipped
AddFile(totals, content) == AddLines(totals, SplitLines(Trim(content), <<>>), 2)

\* csv.ts lines 61-63: the files aggregateAllCsvFiles takes from a readdir
\* that lists names
IsDatedCsv(name) ==
    StartsWith(name, <<"c","a","t","e","g","o","r","i","e","s","_","s","t","a","t","s","_">>) /\ EndsWith(name, <<".","c","s","v">>)

(***************************************************************************)
(* Inputs of the model.                                                    *)
(***************************************************************************)
\* no match of any category
TextPlain == <<"o","k",","," ","o","k",".","\n","o","k",":"," ","(","o","k",")"," ","o","k","!">>

\* the same address in the first and in the second chunk, a name behind it
TextTwice == <<"a","@","b",".","i","t"," ","o","k"," ","o","k"," ","o","k"," ","a","@","b",".","i","t"," ","U","g","o"," ","B","o">>

\* two matches that do not overlap, on two lines
TextTwo == <<"M","a","r","i","o"," ","R","o","s","s","i","\n","a","@","b",".","i","t">>

\* an address whose local part is a phone number, and more text
TextPhoneInEmail == <<"3","3","3","1","2","3","4","5","6","@","b",".","i","t"," ","o","k">>

\* a card number with a phone number inside it, and more text
TextCardAndMore == <<"4","1","1","1","3","3","3","1","2","3","4","5","6","7","8","9"," ","o","k">>

\* a sentence with a name, a phone number and an address
TextExample ==
    <<"C","o","n","t","a","t","t","a","r","e"," ","M","a","r","i","o"," ","R","o","s","s","i"," ","a","l"," ","n","u","m","e","r","o"," ","3","3","3"," ","1","2","3">> \o
    <<"4","5","6","7"," ","o"," ","v","i","a"," ","e","m","a","i","l"," ","a"," ","m","a","r","i","o",".","r","o","s","s","i","@","t","e","s","t",".","i","t">>

\* the texts passed to anonymizeText, anonymizeTextChunked and the drivers
Texts == {<<>>, TextPlain, TextTwice, TextTwo, TextPhoneInEmail, TextCardAndMore}

\* the original values passed to getFakeValue directly
OriginalValues == {<<"x">>, <<"M","a","r","i","o"," ","R","o","s","s","i">>}

\* the n of testMode (line 106: 100 unless -n gives another)
TestLineCounts == {0, 1, 100}

\* the pieces the texts given to detectEntities are made of
Fragments ==
    { <<"M","a","r","i","o">>, <<" ">>, <<"\n">>, <<"@","b",".","i","t">>, <<"ò">>,
      <<"3","3","3","1","2","3","4","5","6">>, <<"4","1","1","1","3","3","3","1","2","3","4","5","6","7","8","9">>,
      <<"I","T","6","0","X","0","5","4","2","8","1","1","1","0","1">>,
      <<"R","S","S","M","R","A","8","0","A","0","1","H","5","0","1","U">> }

\* at most MaxFrags fragments in a text given to detectEntities
MaxFrags == 3

\* at most MaxCalls calls of anonymizeText, anonymizeTextChunked and resetMaps
\* in a run of Spec
MaxCalls == 2

\* at most MaxGenCalls calls of getFakeValue and resetMaps in a run of SpecGen
MaxGenCalls == 3

\* at most MaxFiles files in the input directory
MaxFiles == 2

\* at most MaxDetectCalls calls of detectEntities in a run of SpecPure
MaxDetectCalls == 3

DetectTexts ==
    {Join(fs, <<>>) : fs \in UNION {[1..n -> Fragments] : n \in 0..MaxFrags}}

\* texts of one chunk at most: none, a name, an address and a name, an
\* address whose local part is a phone number; and one of two chunks
ShortTexts ==
    {<<>>, SubSeq(TextTwo, 1, 11), SubSeq(TextTwice, 17, 29),
     SubSeq(TextPhoneInEmail, 1, 14), TextTwo}

\* the texts given to the split of anonymizeTextChunked: every prefix of a
\* text of several chunks
LongText == TextTwice \o TextPlain \o TextTwo

SplitTexts == {SubSeq(LongText, 1, m) : m \in 0..Len(LongText)}

FileLists == UNION {[1..n -> Texts] : n \in 0..MaxFiles}

\* fetch-langfuse: the runs, the days and the traces of one fetch
MaxRuns == 2

MaxDays == 2

MaxTraces == 2

\* the text of a question
QuestionText == <<"q">>

\* langfuse.ts lines 26-45: what fetchNewTraces can return in the run-th
\* run: up to MaxTraces traces, the newest first, of which the first
\* withQuery have an input.query
FetchedTraces(run) ==
    {[k \in 1..count |->
         [timestamp |-> run, query |-> IF k <= withQuery THEN <<QuestionText>> ELSE <<>>]] :
       count \in 0..MaxTraces, withQuery \in 0..MaxTraces}

\* classifier.ts lines 52-58: what the batches can be classified as: one
\* category for each question the model lists, which may be fewer than it
\* was given
RECURSIVE Classifications(_)
Classifications(count) ==
    IF count = 0 THEN {<<>>}
    ELSE LET shorter == Classifications(count - 1)
         IN  shorter \cup {Append(cs, c) : cs \in {x \in shorter : Len(x) = count - 1},
                                            c \in CATEGORIES}

(***************************************************************************)
(* State.                                                                  *)
(***************************************************************************)
VARIABLES
    entityMaps,        \* faker.ts: the consistency maps
    lastIndex,         \* detector.ts: the lastIndex of each pattern of PATTERNS
    pc,                \* the statement the program is at
    mode,              \* "api": the exported functions are called directly;
                       \* "main", "test": the driver index.ts runs
    calls,             \* direct calls made so far
    limit,             \* the number of direct calls the run is cut at
    text,              \* anonymizeTextChunked: its argument
    chunks,            \*   chunks
    chunkIdx,          \*   the chunk the loop of line 31 is at
    anonymizedChunks,  \*   anonymizedChunks
    chunk,             \* anonymizeText: its argument
    textCaller,        \*   "api" or "chunked": who called it
    entities,          \*   entities
    entIdx,            \*   the entity the loop of line 11 is at
    result,            \*   result
    ret,               \* the value the last direct call returned
    inputFiles,        \* the contents of the files getInputFiles lists
    n,                 \* testMode: n
    fileIdx,           \* main, testMode: the file the loop is at
    outputs,           \* the contents written by Bun.write, by file
    step,              \* history: the statement executed last
    log,               \* history: the calls of getFakeValue, resetMaps,
                       \* anonymizeText (made directly) and
                       \* anonymizeTextChunked and the writes, in order
    mapsAtText,        \* history: entityMaps when anonymizeText was called
    mapsAtChunked,     \* history: entityMaps when anonymizeTextChunked was called
    dataDir,           \* fetch-langfuse: the CSV files of DATA_DIR, each a
                       \*   record [name, content]
    stateFile,         \*   STATE_FILE: <<>> while it does not exist, else
                       \*   <<the FetchState written last>>
    today,             \*   the day of January 2026 the clock shows
    fpc,               \*   the statement main is at
    runs,              \*   the runs started so far
    state,             \*   main: state
    traces,            \*   traces
    questions,         \*   questions
    allClassified,     \*   allClassified: the category of each item
    fstep,             \* history: the statement of main executed last
    classifiedSoFar,   \* history: the items classified over all runs, by
                       \* category
    filesRead,         \* history: the files aggregateAllCsvFiles read last
    stateAtStart,      \* history: stateFile when the run started
    statsWritten       \* history: the run has written its daily file

vars ==
    << entityMaps, lastIndex, pc, mode, calls, limit, text, chunks, chunkIdx, anonymizedChunks,
       chunk, textCaller, entities, entIdx, result, ret, inputFiles, n, fileIdx,
       outputs, step, log, mapsAtText, mapsAtChunked,
       dataDir, stateFile, today, fpc, runs, state, traces, questions, allClassified,
       fstep, classifiedSoFar, filesRead, stateAtStart, statsWritten >>

fetchVars ==
    << dataDir, stateFile, today, fpc, runs, state, traces, questions, allClassified,
       fstep, classifiedSoFar, filesRead, stateAtStart, statsWritten >>


chunkedVars == << text, chunks, chunkIdx, anonymizedChunks, mapsAtChunked >>

textVars == << chunk, textCaller, entities, entIdx, result, mapsAtText >>

driverVars == << mode, limit, inputFiles, n, fileIdx, outputs >>

anonymizerVars ==
    << entityMaps, lastIndex, pc, calls, text, ret, step, log, chunkedVars, textVars,
       driverVars >>

\* state.ts line 17: the state of a first run; null is 0
FreshState == [lastProcessedTimestamp |-> 0, totalQuestionsProcessed |-> 0]

\* a data directory the pipeline never ran in, on the first day
InitFetchFrames ==
    /\ dataDir = {} /\ stateFile = <<>>
    /\ today = 1 /\ fpc = "idle" /\ runs = 0
    /\ state = FreshState /\ traces = <<>> /\ questions = <<>> /\ allClassified = <<>>
    /\ fstep = "init"
    /\ classifiedSoFar = [c \in CATEGORIES |-> 0]
    /\ filesRead = {}
    /\ stateAtStart = <<>> /\ statsWritten = FALSE

\* one entry of the history
LogEntry(op, type, value, res, threw, changed) ==
    [op |-> op, file |-> fileIdx, chunk |-> chunkIdx, entity |-> entIdx, type |-> type,
     value |-> value, result |-> res, threw |-> threw, changed |-> changed]

\* the entry of a call that is no getFakeValue
Mark(op) == LogEntry(op, "", <<>>, <<>>, FALSE, FALSE)

InitFrames ==
    /\ entityMaps = NewEntityMaps
    /\ lastIndex = NewLastIndex
    /\ calls = 0
    /\ chunks = <<>> /\ chunkIdx = 0 /\ anonymizedChunks = <<>>
    /\ chunk = <<>> /\ textCaller = "api" /\ entities = <<>> /\ entIdx = 0
    /\ result = <<>> /\ ret = <<>>
    /\ fileIdx = 0 /\ outputs = <<>>
    /\ step = "init" /\ log = <<>>
    /\ mapsAtText = NewEntityMaps /\ mapsAtChunked = NewEntityMaps
    /\ InitFetchFrames

\* anonymizer.ts as a library
Init ==
    /\ InitFrames
    /\ pc = "idle" /\ mode = "api" /\ inputFiles = <<>> /\ n = 0
    /\ text = <<>>
    /\ limit = MaxCalls

\* faker.ts as a library
InitGen ==
    /\ InitFrames
    /\ pc = "idle" /\ mode = "api" /\ inputFiles = <<>> /\ n = 0
    /\ text = <<>>
    /\ limit = MaxGenCalls

\* detector.ts as a library
InitPure ==
    /\ InitFrames
    /\ pc = "idle" /\ mode = "api" /\ inputFiles = <<>> /\ n = 0
    /\ text = <<>>
    /\ limit = MaxDetectCalls

\* anonymizeTextChunked called on a text of any length
InitSplit ==
    /\ InitFrames
    /\ pc = "chunked_split" /\ mode = "api" /\ inputFiles = <<>> /\ n = 0
    /\ text \in SplitTexts
    /\ limit = 0

\* detectEntities alone, on a text made of fragments
InitDetect ==
    /\ InitFrames
    /\ pc = "detect" /\ mode = "api" /\ inputFiles = <<>> /\ n = 0
    /\ text \in DetectTexts
    /\ limit = 0

\* the fetch-langfuse pipeline; the anonymizer does not run
InitFetch ==
    /\ InitFrames
    /\ pc = "idle" /\ mode = "api" /\ inputFiles = <<>> /\ n = 0
    /\ text = <<>>
    /\ limit = 0

\* bun run scripts/anonymizer/index.ts [--test [-n N]]
InitMain ==
    /\ InitFrames
    /\ pc = "main"
    /\ text = <<>>
    /\ limit = 0
    /\ inputFiles \in FileLists
    /\ \/ mode = "main" /\ n = 0
       \/ mode = "test" /\ n \in TestLineCounts

(***************************************************************************)
(* faker.ts: the exported functions called directly.                       *)
(***************************************************************************)
CallGetFakeValue(type, originalValue) ==
    /\ pc = "idle" /\ calls < limit
    /\ \E generated \in generateFakeValue(type) :
          LET r == getFakeValue(entityMaps, type, originalValue, generated)
          IN  /\ entityMaps' = r.maps
              /\ ret' = r.value
              /\ log' = Append(log, LogEntry("getFakeValue", type, originalValue,
                                             r.value, r.threw, r.maps # entityMaps))
    /\ calls' = calls + 1
    /\ step' = "getFakeValue"
    /\ UNCHANGED << fetchVars, lastIndex, pc, chunkedVars, textVars, driverVars >>

CallResetMaps ==
    /\ pc = "idle" /\ calls < limit
    /\ entityMaps' = resetMaps(entityMaps)
    /\ log' = Append(log, Mark("resetMaps"))
    /\ calls' = calls + 1
    /\ step' = "resetMaps"
    /\ UNCHANGED << fetchVars, lastIndex, pc, ret, chunkedVars, textVars, driverVars >>

(***************************************************************************)
(* detector.ts: detectEntities called directly.                            *)
(***************************************************************************)
CallDetectEntities ==
    /\ pc = "detect"
    /\ ret' = detectEntitiesWith(text, lastIndex)
    /\ lastIndex' = [type \in ENTITY_TYPES |-> LastIndexAfter(type, text, lastIndex, ret')]
    /\ pc' = "idle"
    /\ step' = "detectEntities"
    /\ UNCHANGED << fetchVars, entityMaps, calls, log, chunkedVars, textVars, driverVars >>

\* a detectEntities that asks each pattern for one match and leaves its
\* lastIndex behind that match
CallDetectEntitiesOnce(t) ==
    /\ pc = "idle" /\ calls < limit
    /\ text' = t
    /\ LET match(type) == Exec(PATTERNS[type], t, lastIndex[type])
           all == [j \in 1..Len(PatternOrder) |->
                      DetectedEntity(PatternOrder[j], match(PatternOrder[j]).match0,
                                     match(PatternOrder[j]).index)]
       IN  ret' = SortByStartDesc(SelectSeq(all, LAMBDA e : e.value # <<>>), <<>>)
    /\ lastIndex' = [type \in ENTITY_TYPES |-> LastIndexAfter(type, t, lastIndex, ret')]
    /\ log' = Append(log, LogEntry("detectEntities", "", t, ret', FALSE, FALSE))
    /\ calls' = calls + 1
    /\ step' = "detectEntities"
    /\ UNCHANGED << fetchVars, entityMaps, pc, chunks, chunkIdx, anonymizedChunks, mapsAtChunked,
                    textVars, driverVars >>

\* detectEntities(t) called after earlier calls
CallDetectEntitiesOn(t) ==
    /\ pc = "idle" /\ calls < limit
    /\ text' = t
    /\ ret' = detectEntitiesWith(t, lastIndex)
    /\ lastIndex' = [type \in ENTITY_TYPES |-> LastIndexAfter(type, t, lastIndex, ret')]
    /\ log' = Append(log, LogEntry("detectEntities", "", t, ret', FALSE, FALSE))
    /\ calls' = calls + 1
    /\ step' = "detectEntities"
    /\ UNCHANGED << fetchVars, entityMaps, pc, chunks, chunkIdx, anonymizedChunks, mapsAtChunked,
                    textVars, driverVars >>

(***************************************************************************)
(* anonymizer.ts: anonymizeText.                                           *)
(***************************************************************************)
CallAnonymizeText(t) ==
    /\ pc = "idle" /\ calls < limit
    /\ calls' = calls + 1
    /\ chunk' = t /\ textCaller' = "api" /\ mapsAtText' = entityMaps
    /\ pc' = "text_detect"
    /\ log' = Append(log, Mark("anonymizeText"))
    /\ step' = "call_text"
    /\ UNCHANGED << fetchVars, lastIndex, entityMaps, entities, entIdx, result, ret, chunkedVars,
                    driverVars >>

\* lines 6-8
Detect ==
    /\ pc = "text_detect"
    /\ entities' = detectEntitiesWith(chunk, lastIndex)
    /\ lastIndex' = [type \in ENTITY_TYPES |->
                        LastIndexAfter(type, chunk, lastIndex, entities')]
    /\ result' = chunk
    /\ entIdx' = 1
    /\ pc' = "text_loop"
    /\ step' = "detect"
    /\ UNCHANGED << fetchVars, entityMaps, calls, chunk, textCaller, mapsAtText, ret, log,
                    chunkedVars, driverVars >>

\* lines 11-15: one turn of the loop
SubstituteEntity ==
    /\ pc = "text_loop" /\ entIdx <= Len(entities)
    /\ LET entity == entities[entIdx]
       IN  \E generated \in generateFakeValue(entity.type) :
              LET r == getFakeValue(entityMaps, entity.type, entity.value, generated)
              IN  /\ entityMaps' = r.maps
                  /\ result' = Substitute(result, entity, r.value)
                  /\ log' = Append(log, LogEntry("getFakeValue", entity.type,
                                                 entity.value, r.value, r.threw,
                                                 r.maps # entityMaps))
    /\ entIdx' = entIdx + 1
    /\ step' = "substitute"
    /\ UNCHANGED << fetchVars, lastIndex, pc, calls, chunk, textCaller, entities, mapsAtText, ret,
                    chunkedVars, driverVars >>

\* line 17, back in the direct caller
ReturnText ==
    /\ pc = "text_loop" /\ entIdx > Len(entities) /\ textCaller = "api"
    /\ ret' = result
    /\ pc' = "idle"
    /\ step' = "text_return"
    /\ UNCHANGED << fetchVars, lastIndex, entityMaps, calls, log, chunkedVars, textVars, driverVars >>

(***************************************************************************)
(* anonymizer.ts: anonymizeTextChunked.                                    *)
(***************************************************************************)
CallAnonymizeTextChunked(t) ==
    /\ pc = "idle" /\ calls < limit
    /\ calls' = calls + 1
    /\ text' = t /\ mapsAtChunked' = entityMaps
    /\ pc' = "chunked_split"
    /\ log' = Append(log, Mark("anonymizeTextChunked"))
    /\ step' = "call_chunked"
    /\ UNCHANGED << fetchVars, lastIndex, entityMaps, chunks, chunkIdx, anonymizedChunks, ret,
                    textVars, driverVars >>

\* lines 21-29
SplitText ==
    /\ pc = "chunked_split"
    /\ chunks' = SplitChunks(text, 0)
    /\ anonymizedChunks' = <<>>
    /\ chunkIdx' = 1
    /\ pc' = "chunked_loop"
    /\ step' = "split"
    /\ UNCHANGED << fetchVars, lastIndex, entityMaps, calls, text, mapsAtChunked, ret, log, textVars,
                    driverVars >>

\* lines 31-35: the call anonymizeText(chunk)
AnonymizeChunk ==
    /\ pc = "chunked_loop" /\ chunkIdx <= Len(chunks)
    /\ chunk' = chunks[chunkIdx] /\ textCaller' = "chunked" /\ mapsAtText' = entityMaps
    /\ pc' = "text_detect"
    /\ step' = "call_text"
    /\ UNCHANGED << fetchVars, lastIndex, entityMaps, calls, entities, entIdx, result, ret, log,
                    chunkedVars, driverVars >>

\* the result put in front of anonymizedChunks instead of behind
ReturnChunkInFront ==
    /\ pc = "text_loop" /\ entIdx > Len(entities) /\ textCaller = "chunked"
    /\ anonymizedChunks' = <<result>> \o anonymizedChunks
    /\ chunkIdx' = chunkIdx + 1
    /\ pc' = "chunked_loop"
    /\ step' = "text_return"
    /\ UNCHANGED << fetchVars, lastIndex, entityMaps, calls, text, chunks, mapsAtChunked, ret, log,
                    textVars, driverVars >>

\* line 17 and the push of line 35
ReturnChunk ==
    /\ pc = "text_loop" /\ entIdx > Len(entities) /\ textCaller = "chunked"
    /\ anonymizedChunks' = Append(anonymizedChunks, result)
    /\ chunkIdx' = chunkIdx + 1
    /\ pc' = "chunked_loop"
    /\ step' = "text_return"
    /\ UNCHANGED << fetchVars, lastIndex, entityMaps, calls, text, chunks, mapsAtChunked, ret, log,
                    textVars, driverVars >>

\* line 38, back in the direct caller
ReturnChunked ==
    /\ pc = "chunked_loop" /\ chunkIdx > Len(chunks) /\ mode = "api"
    /\ ret' = Join(anonymizedChunks, <<>>)
    /\ pc' = "idle"
    /\ step' = "chunked_return"
    /\ UNCHANGED << fetchVars, lastIndex, entityMaps, calls, log, chunkedVars, textVars, driverVars >>

(***************************************************************************)
(* index.ts: main and testMode.                                            *)
(***************************************************************************)
\* lines 76-89, 107-116: nothing to do without input files
StartDriver ==
    /\ pc = "main"
    /\ pc' = IF Len(inputFiles) = 0 THEN "done" ELSE "files_loop"
    /\ fileIdx' = 1
    /\ step' = "start"
    /\ UNCHANGED << fetchVars, lastIndex, entityMaps, calls, ret, log, mode, limit, inputFiles, n, outputs,
                    chunkedVars, textVars >>

\* resetMaps() called for the first file only
ResetForFirstFile ==
    /\ pc = "files_loop" /\ fileIdx <= Len(inputFiles)
    /\ entityMaps' = IF fileIdx = 1 THEN resetMaps(entityMaps) ELSE entityMaps
    /\ log' = Append(log, Mark("resetMaps"))
    /\ pc' = "file_read"
    /\ step' = "resetMaps"
    /\ UNCHANGED << fetchVars, lastIndex, calls, ret, driverVars, chunkedVars, textVars >>

\* the loop going on to the resetMaps() of the next file while the file
\* before it is still being anonymized
ResetForFileUnawaited ==
    \/ /\ pc = "files_loop" /\ fileIdx <= Len(inputFiles)
       /\ entityMaps' = resetMaps(entityMaps)
       /\ log' = Append(log, Mark("resetMaps"))
       /\ pc' = "file_read"
       /\ step' = "resetMaps"
       /\ UNCHANGED << fetchVars, lastIndex, calls, ret, driverVars, chunkedVars, textVars >>
    \/ /\ pc = "text_loop" /\ entIdx <= Len(entities) /\ fileIdx < Len(inputFiles)
       /\ log[Len(log)].op # "resetMaps"
       /\ entityMaps' = resetMaps(entityMaps)
       /\ log' = Append(log, Mark("resetMaps"))
       /\ step' = "resetMaps"
       /\ UNCHANGED << fetchVars, lastIndex, pc, calls, ret, driverVars, chunkedVars, textVars >>

\* lines 91-93, 118-119: the next file, and resetMaps()
ResetForFile ==
    /\ pc = "files_loop" /\ fileIdx <= Len(inputFiles)
    /\ entityMaps' = resetMaps(entityMaps)
    /\ log' = Append(log, Mark("resetMaps"))
    /\ pc' = "file_read"
    /\ step' = "resetMaps"
    /\ UNCHANGED << fetchVars, lastIndex, calls, ret, driverVars, chunkedVars, textVars >>

\* anonymizeFile lines 16-21, anonymizeFirstNLines lines 34-41: the text
\* read and the call anonymizeTextChunked
ReadFile ==
    /\ pc = "file_read"
    /\ text' = IF mode = "test" THEN FirstNLines(inputFiles[fileIdx], n)
               ELSE inputFiles[fileIdx]
    /\ mapsAtChunked' = entityMaps
    /\ pc' = "chunked_split"
    /\ log' = Append(log, Mark("anonymizeTextChunked"))
    /\ step' = "call_chunked"
    /\ UNCHANGED << fetchVars, lastIndex, entityMaps, calls, ret, chunks, chunkIdx, anonymizedChunks,
                    driverVars, textVars >>

\* anonymizer.ts line 38, then Bun.write (lines 23, 43) and the next turn of
\* the loop over the files
WriteFile ==
    /\ pc = "chunked_loop" /\ chunkIdx > Len(chunks) /\ mode # "api"
    /\ outputs' = Append(outputs, Join(anonymizedChunks, <<>>))
    /\ log' = Append(log, Mark("write"))
    /\ fileIdx' = fileIdx + 1
    /\ pc' = "files_loop"
    /\ step' = "write"
    /\ UNCHANGED << fetchVars, lastIndex, entityMaps, calls, ret, mode, limit, inputFiles, n, chunkedVars,
                    textVars >>

\* lines 102, 131: the loop is over
EndDriver ==
    /\ pc = "files_loop" /\ fileIdx > Len(inputFiles)
    /\ pc' = "done"
    /\ step' = "end"
    /\ UNCHANGED << fetchVars, lastIndex, entityMaps, calls, ret, log, driverVars, chunkedVars, textVars >>

(***************************************************************************)
(* fetch-langfuse/index.ts: main, one action for each of its statements    *)
(* that reads or writes a file, fetches or classifies.                     *)
(***************************************************************************)
\* readdir(DATA_DIR)
Readdir == {f.name : f \in dataDir} \cup (IF stateFile = <<>> THEN {} ELSE {STATE_FILE})

\* Bun.file(name).exists() and Bun.file(name).text()
Exists(name) == \E f \in dataDir : f.name = name

FileText(name) == (CHOOSE f \in dataDir : f.name = name).content

\* Bun.write(name, content): the file is created or replaced
BunWrite(dir, name, content) ==
    {f \in dir : f.name # name} \cup {[name |-> name, content |-> content]}

\* state.ts lines 8-18
loadState == IF stateFile = <<>> THEN FreshState ELSE stateFile[1]

\* csv.ts lines 12-17
RECURSIVE DoubleQuotes(_)
DoubleQuotes(str) ==
    IF str = <<>> THEN <<>>
    ELSE IF Head(str) = "\"" THEN <<"\"", "\"">> \o DoubleQuotes(Tail(str))
    ELSE <<Head(str)>> \o DoubleQuotes(Tail(str))

escapeCSV(str) ==
    IF \E k \in 1..Len(str) : str[k] \in {",", "\"", "\n"}
    THEN <<"\"">> \o DoubleQuotes(str) \o <<"\"">>
    ELSE str

\* csv.ts lines 19-41, for count questions of the text QuestionText
saveUncategorizedQuestions(dir, count, dateString) ==
    LET existingContent ==
            IF \E f \in dir : f.name = UNCATEGORIZED_FILE
            THEN (CHOOSE f \in dir : f.name = UNCATEGORIZED_FILE).content
            ELSE <<"d","o","m","a","n","d","a",",","d","a","t","a">> \o <<"\n">>
        newLines ==
            Join([k \in 1..count |-> escapeCSV(QuestionText) \o <<",">> \o dateString],
                 <<"\n">>)
    IN  IF count = 0 THEN dir
        ELSE BunWrite(dir, UNCATEGORIZED_FILE, existingContent \o newLines \o <<"\n">>)

\* csv.ts lines 43-55: the day's file is written over
saveDailyStats(dir, data, dateString) ==
    BunWrite(dir, DailyFile(dateString), StatsText(data))

\* csv.ts lines 72-88: the files of csvFiles added up
RECURSIVE AddFiles(_, _, _)
AddFiles(totals, csvFiles, dir) ==
    IF csvFiles = {} THEN totals
    ELSE LET csvFile == CHOOSE f \in csvFiles : TRUE
             content == (CHOOSE f \in dir : f.name = csvFile).content
         IN  AddFiles(AddFile(totals, content), csvFiles \ {csvFile}, dir)

\* lines 16-26: loadState and fetchNewTraces
LoadAndFetch ==
    /\ fpc = "idle" /\ runs < MaxRuns
    /\ runs' = runs + 1
    /\ state' = loadState
    /\ traces' \in FetchedTraces(runs + 1)
    /\ questions' = <<>> /\ allClassified' = <<>>
    /\ stateAtStart' = stateFile /\ statsWritten' = FALSE
    /\ fpc' = "fetched" /\ fstep' = "fetch"
    /\ UNCHANGED << anonymizerVars, dataDir, stateFile, today, classifiedSoFar, filesRead >>

\* lines 28-29: no new traces
NoTraces ==
    /\ fpc = "fetched" /\ Len(traces) = 0
    /\ fpc' = "aggregate" /\ fstep' = "no_traces"
    /\ UNCHANGED << anonymizerVars, dataDir, stateFile, today, runs, state, traces, questions,
                    allClassified, classifiedSoFar, filesRead, stateAtStart, statsWritten >>

\* lines 34-38: the queries of the traces that have one
ExtractQuestions ==
    /\ fpc = "fetched" /\ Len(traces) # 0
    /\ questions' = SelectSeq([k \in 1..Len(traces) |-> traces[k].query],
                              LAMBDA q : q # <<>>)
    /\ fpc' = "extracted" /\ fstep' = "extract"
    /\ UNCHANGED << anonymizerVars, dataDir, stateFile, today, runs, state, traces,
                    allClassified, classifiedSoFar, filesRead, stateAtStart, statsWritten >>

\* lines 40-46: no question among the traces; the timestamp is saved
NoQuestions ==
    /\ fpc = "extracted" /\ Len(questions) = 0
    /\ LET latestTimestamp == traces[1].timestamp
       IN  IF latestTimestamp # 0
           THEN /\ state' = [state EXCEPT !.lastProcessedTimestamp = latestTimestamp]
                /\ stateFile' = <<state'>>
           ELSE UNCHANGED << state, stateFile >>
    /\ fpc' = "aggregate" /\ fstep' = "no_questions"
    /\ UNCHANGED << anonymizerVars, dataDir, today, runs, traces, questions, allClassified,
                    classifiedSoFar, filesRead, stateAtStart, statsWritten >>

\* lines 51-78: every batch is classified
ClassifyBatches ==
    /\ fpc = "extracted" /\ Len(questions) # 0
    /\ allClassified' \in Classifications(Len(questions))
    /\ classifiedSoFar' =
           [c \in CATEGORIES |->
               classifiedSoFar[c]
                 + Cardinality({k \in 1..Len(allClassified') : allClassified'[k] = c})]
    /\ fpc' = "classified" /\ fstep' = "classify"
    /\ UNCHANGED << anonymizerVars, dataDir, stateFile, today, runs, state, traces, questions,
                    filesRead, stateAtStart, statsWritten >>

\* line 69: classifyBatch rejects (classifier.ts line 24, the request
\* fails); main ends with the exception, nothing of the run is written
ClassifyFails ==
    /\ fpc = "extracted" /\ Len(questions) # 0
    /\ fpc' = "idle" /\ fstep' = "classify_failed"
    /\ UNCHANGED << anonymizerVars, dataDir, stateFile, today, runs, state, traces, questions,
                    allClassified, classifiedSoFar, filesRead, stateAtStart, statsWritten >>

\* lines 81-88: the questions classified as "Altro" are appended
SaveUncategorized ==
    /\ fpc = "classified"
    /\ LET uncategorized ==
               SelectSeq(allClassified, LAMBDA c : c = <<"A","l","t","r","o">>)
       IN  dataDir' = saveUncategorizedQuestions(dataDir, Len(uncategorized),
                                                 getDateString(today))
    /\ fpc' = "uncategorized" /\ fstep' = "uncategorized"
    /\ UNCHANGED << anonymizerVars, stateFile, today, runs, state, traces, questions,
                    allClassified, classifiedSoFar, filesRead, stateAtStart, statsWritten >>

\* lines 91-105: the day's statistics
SaveDailyStats ==
    /\ fpc = "uncategorized"
    /\ LET categoryMap == CountCategories(allClassified, <<>>)
           data == SortByCountDesc(categoryMap, <<>>)
       IN  dataDir' = saveDailyStats(dataDir, data, getDateString(today))
    /\ statsWritten' = TRUE
    /\ fpc' = "stats" /\ fstep' = "daily_stats"
    /\ UNCHANGED << anonymizerVars, stateFile, today, runs, state, traces, questions,
                    allClassified, classifiedSoFar, filesRead, stateAtStart >>

\* line 112 adding traces.length
UpdatedStateCountsTraces ==
    [lastProcessedTimestamp |->
         IF traces[1].timestamp # 0 THEN traces[1].timestamp
         ELSE state.lastProcessedTimestamp,
     totalQuestionsProcessed |-> state.totalQuestionsProcessed + Len(traces)]

\* what lines 108-112 leave in state
UpdatedState ==
    [lastProcessedTimestamp |->
         IF traces[1].timestamp # 0 THEN traces[1].timestamp
         ELSE state.lastProcessedTimestamp,
     totalQuestionsProcessed |-> state.totalQuestionsProcessed + Len(questions)]

\* lines 108-113: the state is updated and saved
UpdateState ==
    /\ fpc = "stats"
    /\ state' = UpdatedState
    /\ stateFile' = <<state'>>
    /\ fpc' = "aggregate" /\ fstep' = "save_state"
    /\ UNCHANGED << anonymizerVars, dataDir, today, runs, traces, questions, allClassified,
                    classifiedSoFar, filesRead, stateAtStart, statsWritten >>

\* lines 30, 47, 119 and csv.ts lines 57-105: aggregateAllCsvFiles, and main
\* returns
AggregateAllCsvFiles ==
    /\ fpc = "aggregate"
    /\ LET csvFiles == {f \in Readdir : IsDatedCsv(f)}
       IN  /\ filesRead' = csvFiles
           /\ dataDir' =
                  IF csvFiles = {} THEN dataDir
                  ELSE BunWrite(dataDir, AggregateFile,
                                StatsText(SortByCountDesc(AddFiles(<<>>, csvFiles, dataDir),
                                                          <<>>)))
    /\ fpc' = "idle" /\ fstep' = "aggregate"
    /\ UNCHANGED << anonymizerVars, stateFile, today, runs, state, traces, questions,
                    allClassified, classifiedSoFar, stateAtStart, statsWritten >>

\* between two runs the day ends
NextDay ==
    /\ fpc = "idle" /\ today < MaxDays
    /\ today' = today + 1
    /\ fstep' = "next_day"
    /\ UNCHANGED << anonymizerVars, dataDir, stateFile, runs, state, traces, questions,
                    allClassified, fpc, classifiedSoFar, filesRead, stateAtStart,
                    statsWritten >>

(***************************************************************************)
(* Specifications.                                                         *)
(***************************************************************************)
\* the text functions and resetMaps called in any order
Next ==
    \/ \E t \in Texts : CallAnonymizeText(t)
    \/ \E t \in Texts : CallAnonymizeTextChunked(t)
    \/ CallResetMaps
    \/ Detect
    \/ SubstituteEntity
    \/ ReturnText
    \/ SplitText
    \/ AnonymizeChunk
    \/ ReturnChunk
    \/ ReturnChunked

Spec == Init /\ [][Next]_vars

\* getFakeValue and resetMaps called in any order
NextGen ==
    \/ \E type \in AllTypes, originalValue \in OriginalValues :
          CallGetFakeValue(type, originalValue)
    \/ CallResetMaps

SpecGen == InitGen /\ [][NextGen]_vars

\* detectEntities on every text of DetectTexts
NextDetect == CallDetectEntities

SpecDetect == InitDetect /\ [][NextDetect]_vars

\* detectEntities called again and again
NextPure == \E t \in Texts : CallDetectEntitiesOn(t)

SpecPure == InitPure /\ [][NextPure]_vars

\* the split of anonymizeTextChunked on every text of SplitTexts
NextSplit == SplitText

SpecSplit == InitSplit /\ [][NextSplit]_vars

\* anonymizeText called on the sentence TextExample, and resetMaps
NextExample ==
    \/ CallAnonymizeText(TextExample)
    \/ CallResetMaps
    \/ Detect
    \/ SubstituteEntity
    \/ ReturnText

SpecExample == Init /\ [][NextExample]_vars

\* the text functions called on short texts, and resetMaps
NextShort ==
    \/ \E t \in ShortTexts : CallAnonymizeText(t)
    \/ \E t \in ShortTexts : CallAnonymizeTextChunked(t)
    \/ CallResetMaps
    \/ Detect
    \/ SubstituteEntity
    \/ ReturnText
    \/ SplitText
    \/ AnonymizeChunk
    \/ ReturnChunk
    \/ ReturnChunked

SpecShort == Init /\ [][NextShort]_vars

\* the driver
NextMain ==
    \/ StartDriver
    \/ ResetForFile
    \/ ReadFile
    \/ SplitText
    \/ AnonymizeChunk
    \/ Detect
    \/ SubstituteEntity
    \/ ReturnChunk
    \/ WriteFile
    \/ EndDriver

SpecMain == InitMain /\ [][NextMain]_vars

\* bun run scripts/fetch-langfuse/index.ts, run after run
NextFetch ==
    \/ LoadAndFetch
    \/ NoTraces
    \/ ExtractQuestions
    \/ NoQuestions
    \/ ClassifyBatches
    \/ ClassifyFails
    \/ SaveUncategorized
    \/ SaveDailyStats
    \/ UpdateState
    \/ AggregateAllCsvFiles
    \/ NextDay

SpecFetch == InitFetch /\ [][NextFetch]_vars

(***************************************************************************)
(* Properties.                                                             *)
(***************************************************************************)
Last(seq) == seq[Len(seq)]

\* log[i] and log[j], i < j, are getFakeValue calls for the same pair of a
\* known type
SamePair(i, j) ==
    /\ i < j
    /\ log[i].op = "getFakeValue" /\ log[j].op = "getFakeValue"
    /\ log[i].type \in ENTITY_TYPES
    /\ log[i].type = log[j].type /\ log[i].value = log[j].value

NoResetBetween(i, j) == \A k \in i..j : log[k].op # "resetMaps"

SomeMapFilled == \E type \in ENTITY_TYPES : DOMAIN entityMaps[type] # {}

\* C1: two getFakeValue calls for the same (type, value) with no resetMaps
\* between them return the same string, and the second leaves every
\* consistency map as it was.
C1_SameValueInSession ==
    \A i, j \in 1..Len(log) :
        (SamePair(i, j) /\ NoResetBetween(i, j))
            => (log[j].result = log[i].result /\ ~log[j].changed)

\* a pair resolved twice in one session, the generator having had another
\* value to offer
C1_Witness ==
    \E i, j \in 1..Len(log) :
        /\ SamePair(i, j) /\ NoResetBetween(i, j)
        /\ log[i].changed
        /\ Cardinality(generateFakeValue(log[i].type)) > 1

\* C7: right after resetMaps the map of each of the six types is empty.
C7_ResetEmptiesEveryMap ==
    (step = "resetMaps")
        => (DOMAIN entityMaps = ENTITY_TYPES
            /\ \A type \in ENTITY_TYPES : DOMAIN entityMaps[type] = {})

\* resetMaps after calls that stored pairs in two maps
C7_Witness ==
    /\ step = "resetMaps"
    /\ \E i, j \in 1..Len(log) :
          /\ log[i].op = "getFakeValue" /\ log[i].changed
          /\ log[j].op = "getFakeValue" /\ log[j].changed
          /\ log[i].type # log[j].type

\* the values getFakeValue(type, originalValue) can return from maps
PossibleResults(maps, type, originalValue) ==
    { getFakeValue(maps, type, originalValue, generated).value :
          generated \in generateFakeValue(type) }

\* log[j] is the first getFakeValue call for its pair since the last
\* resetMaps before it, and the pair was resolved before that resetMaps
FirstSinceReset(j) ==
    /\ log[j].op = "getFakeValue" /\ log[j].type \in ENTITY_TYPES
    /\ \E r \in 1..(j - 1) :
          /\ log[r].op = "resetMaps"
          /\ \A k \in (r + 1)..(j - 1) : ~SamePair(k, j) /\ log[k].op # "resetMaps"
          /\ \E i \in 1..(r - 1) : SamePair(i, j)

\* C8: after resetMaps, getFakeValue for a pair resolved before the reset
\* can return exactly what it can return in a new session, and the first
\* such call generates and stores a value.
C8_ResetForgetsPairs ==
    /\ (step = "resetMaps")
          => \A type \in ENTITY_TYPES, originalValue \in OriginalValues :
                PossibleResults(entityMaps, type, originalValue)
                    = PossibleResults(NewEntityMaps, type, originalValue)
    /\ \A j \in 1..Len(log) : FirstSinceReset(j) => log[j].changed

\* a pair resolved, forgotten by resetMaps and resolved again to another
\* value
C8_Witness ==
    \E j \in 1..Len(log) :
        /\ FirstSinceReset(j)
        /\ \E i \in 1..(j - 1) : SamePair(i, j) /\ log[i].result # log[j].result

\* log[i] and log[j] are getFakeValue calls of one anonymizeTextChunked call
InOneChunkedCall(i, j) ==
    \E c \in 1..(i - 1) :
        /\ log[c].op = "anonymizeTextChunked"
        /\ \A k \in (c + 1)..j : log[k].op = "getFakeValue"

\* C2: within one anonymizeTextChunked call every entity with the same
\* (type, value) is replaced by the same value, whichever chunk it is in.
C2_SameFakeInChunkedCall ==
    \A i, j \in 1..Len(log) :
        (SamePair(i, j) /\ InOneChunkedCall(i, j)) => log[j].result = log[i].result

\* the same address replaced in two chunks, another entity in between
C2_Witness ==
    \E i, j \in 1..Len(log) :
        /\ SamePair(i, j) /\ InOneChunkedCall(i, j)
        /\ log[i].chunk # log[j].chunk
        /\ \E k \in (i + 1)..(j - 1) : log[k].type # log[i].type
        /\ Cardinality(generateFakeValue(log[i].type)) > 1

\* offset p of the text lies in the span of some entity
Covered(es, p) == \E k \in 1..Len(es) : es[k].start <= p /\ p < es[k].end

\* The runs of characters of t outside every span, in order: the one before
\* the first covered run, those between covered runs and the one behind the
\* last (each possibly empty).
RECURSIVE Gaps(_, _, _, _, _)
Gaps(t, es, p, gap, inSpan) ==
    IF p = Len(t) THEN <<gap>>
    ELSE IF Covered(es, p)
         THEN IF inSpan THEN Gaps(t, es, p + 1, <<>>, TRUE)
              ELSE <<gap>> \o Gaps(t, es, p + 1, <<>>, TRUE)
    ELSE Gaps(t, es, p + 1, Append(gap, t[p + 1]), FALSE)

\* gaps[k..] but the last occur in out[from..to), in order and apart
RECURSIVE FitsInner(_, _, _, _, _)
FitsInner(out, from, to, gaps, k) ==
    IF k >= Len(gaps) THEN TRUE
    ELSE LET g == gaps[k]
             at == {q \in from..(to - Len(g)) : Substring(out, q, q + Len(g)) = g}
         IN  /\ at # {}
             /\ FitsInner(out, (CHOOSE q \in at : \A r \in at : q <= r) + Len(g),
                          to, gaps, k + 1)

\* out is the gaps in order with some string in place of each covered run
Fits(out, gaps) ==
    IF Len(gaps) = 1 THEN out = gaps[1]
    ELSE LET first == gaps[1]
             last == gaps[Len(gaps)]
         IN  /\ Len(out) >= Len(first) + Len(last)
             /\ Substring(out, 0, Len(first)) = first
             /\ SubstringFrom(out, Len(out) - Len(last)) = last
             /\ FitsInner(out, Len(first), Len(out) - Len(last), gaps, 2)

\* C3: what anonymizeText returns is its argument with the characters
\* outside the detected spans kept, in order, and only the spans replaced.
C3_OutsideSpansKept ==
    (step = "text_return") => Fits(result, Gaps(chunk, entities, 0, <<>>, FALSE))

\* no two of the entities overlap
Disjoint(es) ==
    \A a, b \in 1..Len(es) :
        a # b => (es[a].end <= es[b].start \/ es[b].end <= es[a].start)

\* the value stored for an entity
FakeOf(e) == entityMaps[e.type][e.value]

\* the change of length by the entities that end at or before offset p
RECURSIVE ShiftBefore(_, _, _)
ShiftBefore(es, p, k) ==
    IF k > Len(es) THEN 0
    ELSE (IF es[k].end <= p THEN Len(FakeOf(es[k])) - (es[k].end - es[k].start) ELSE 0)
         + ShiftBefore(es, p, k + 1)

\* the offset in the output of the replacement of an entity
Place(es, e) == e.start + ShiftBefore(es, e.start, 1)

\* C4: in what anonymizeText returns, the span of every detected entity
\* holds the value stored for its (type, value) instead of the original.
C4_EverySpanReplaced ==
    (step = "text_return") =>
        \A k \in 1..Len(entities) :
            LET e == entities[k]
            IN  /\ MapHas(entityMaps[e.type], e.value)
                /\ Substring(result, Place(entities, e), Place(entities, e) + Len(FakeOf(e)))
                       = FakeOf(e)

\* C5: the entities detectEntities returns are in non-increasing order of
\* start.
C5_SortedByStartDesc ==
    (step = "detectEntities") =>
        \A k \in 1..(Len(ret) - 1) : ret[k].start >= ret[k + 1].start

\* a text whose matches are found in another order than they are returned in
C5_Witness ==
    /\ step = "detectEntities"
    /\ Len(ret) >= 3
    /\ ret # Collect(text, 1)
    /\ \E k \in 1..(Len(ret) - 1) : ret[k].start = ret[k + 1].start

\* C6: every entity detectEntities returns has 0 <= start < end <= len(text)
\* and value = text[start:end]; no match is empty.
C6_SpansWithinText ==
    (step = "detectEntities") =>
        \A k \in 1..Len(ret) :
            /\ 0 <= ret[k].start /\ ret[k].start < ret[k].end /\ ret[k].end <= Len(text)
            /\ ret[k].value = SubSeq(text, ret[k].start + 1, ret[k].end)

\* entities of four types in one text, one of them reaching its end
C6_Witness ==
    /\ step = "detectEntities"
    /\ Cardinality({ret[k].type : k \in 1..Len(ret)}) >= 4
    /\ \E k \in 1..Len(ret) : ret[k].end = Len(text)

\* the getFakeValue call that stored the value log[j] found (0: none)
Creator(j) ==
    LET stores == {i \in 1..(j - 1) : SamePair(i, j) /\ log[i].changed}
    IN  IF stores = {} THEN 0 ELSE CHOOSE i \in stores : \A m \in stores : m <= i

\* C9: in main and in testMode resetMaps is called before each file is
\* anonymized: the maps are empty when anonymizeTextChunked is called, and a
\* value found in a map was stored while the same file was anonymized.
C9_ResetBeforeEveryFile ==
    /\ (step = "call_chunked") => ~SomeMapFilled
    /\ \A c \in 1..Len(log) :
          log[c].op = "anonymizeTextChunked" => (c > 1 /\ log[c - 1].op = "resetMaps")
    /\ \A j \in 1..Len(log) :
          (log[j].op = "getFakeValue" /\ ~log[j].changed)
              => (Creator(j) # 0 /\ log[Creator(j)].file = log[j].file)

\* testMode at its second file, whose pair the first file had too, finding
\* the value it stored itself
C9_Witness ==
    /\ mode = "test"
    /\ \E i, j \in 1..Len(log) :
          /\ SamePair(i, j) /\ log[i].file = 1 /\ log[j].file = 2
          /\ \E h \in (j + 1)..Len(log) : SamePair(j, h) /\ ~log[h].changed

\* C10: anonymizeText returns a text without matches as it is and changes no
\* map; so does anonymizeTextChunked when no chunk has a match.
C10_NoMatchNoChange ==
    /\ (step = "text_return" /\ entities = <<>>)
          => (result = chunk /\ entityMaps = mapsAtText
              /\ (textCaller = "api" => ret = chunk))
    /\ (step = "chunked_return"
          /\ \A k \in 1..Len(chunks) : detectEntities(chunks[k]) = <<>>)
          => (ret = text /\ entityMaps = mapsAtChunked)

\* anonymizeTextChunked back from a text of two chunks without matches, the
\* maps holding pairs of an earlier call
C10_Witness ==
    /\ step = "chunked_return"
    /\ Len(chunks) >= 2
    /\ \A k \in 1..Len(chunks) : detectEntities(chunks[k]) = <<>>
    /\ SomeMapFilled

\* the string `[REDACTED_${type}]` of faker.ts line 31
Placeholder(type) == <<"[","R","E","D","A","C","T","E","D","_">> \o TypeName(type) \o <<"]">>

\* C11: getFakeValue called with a type outside the six EntityTypes raises no
\* exception and returns the placeholder "[REDACTED_<type>]".
C11_UnknownTypePlaceholder ==
    \A j \in 1..Len(log) :
        (log[j].op = "getFakeValue" /\ log[j].type \notin ENTITY_TYPES)
            => (~log[j].threw /\ log[j].result = Placeholder(log[j].type))

\* the chunk (counted from 1) that offset p of the text falls in
ChunkOf(p) == (p \div CHUNK_SIZE) + 1

\* the span of e lies in one chunk
InOneChunk(e) == ChunkOf(e.start) = ChunkOf(e.end - 1)

\* e with its offsets counted from the start of its chunk
InChunk(e) ==
    [e EXCEPT !.start = e.start - (ChunkOf(e.start) - 1) * CHUNK_SIZE,
              !.end = e.end - (ChunkOf(e.start) - 1) * CHUNK_SIZE]

\* C12: for a text longer than CHUNK_SIZE, what anonymizeTextChunked returns
\* holds, for every entity of the text whose span lies in one chunk, the
\* value stored for it in place of the span.
C12_EntityInChunkReplaced ==
    (step = "chunked_return" /\ Len(text) > CHUNK_SIZE) =>
        /\ ret = Join(anonymizedChunks, <<>>)
        /\ LET found == detectEntities(text)
           IN  \A j \in 1..Len(found) :
                   InOneChunk(found[j]) =>
                       LET e == InChunk(found[j])
                           k == ChunkOf(found[j].start)
                           es == detectEntities(chunks[k])
                       IN  /\ MapHas(entityMaps[e.type], e.value)
                           /\ Substring(anonymizedChunks[k], Place(es, e),
                                        Place(es, e) + Len(FakeOf(e))) = FakeOf(e)

\* log[i] and log[j], i < j, are detectEntities calls on the same text
SameText(i, j) ==
    /\ i < j
    /\ log[i].op = "detectEntities" /\ log[j].op = "detectEntities"
    /\ log[i].value = log[j].value

\* C15: two detectEntities calls on the same text return the same sequence,
\* whatever calls on other texts were made in between, although the patterns
\* and their lastIndex are shared by all calls.
C15_DetectIsPure ==
    \A i, j \in 1..Len(log) : SameText(i, j) => log[j].result = log[i].result

\* a text with two entities of the same start, scanned before and after
\* another text with entities
C15_Witness ==
    \E i, j \in 1..Len(log) :
        /\ SameText(i, j)
        /\ \E a, b \in 1..Len(log[i].result) :
              a # b /\ log[i].result[a].start = log[i].result[b].start
        /\ \E k \in (i + 1)..(j - 1) :
              log[k].value # log[i].value /\ log[k].result # <<>>

\* what anonymizeText(res) returns when maps holds a value for every entity:
\* the substitutions of es[k], es[k + 1], ... made in res one after another
RECURSIVE Replay(_, _, _, _)
Replay(res, es, k, maps) ==
    IF k > Len(es) THEN res
    ELSE Replay(Substitute(res, es[k], maps[es[k].type][es[k].value]), es, k + 1, maps)

\* maps holds every pair that before holds, with the same value
Extends(maps, before) ==
    \A type \in DOMAIN before :
        \A key \in DOMAIN before[type] :
            MapHas(maps[type], key) /\ maps[type][key] = before[type][key]

\* C13: what anonymizeTextChunked returns is the concatenation, in the order
\* of the chunks, of what anonymizeText returns for each chunk, the chunks
\* being taken in ascending order and against the same maps.
C13_ChunkedIsConcatenation ==
    /\ (step = "chunked_return") =>
          /\ ret = Join([k \in 1..Len(chunks) |->
                            Replay(chunks[k], detectEntities(chunks[k]), 1, entityMaps)],
                        <<>>)
          /\ Extends(entityMaps, mapsAtChunked)
    /\ \A i, j \in 1..Len(log) :
          (i < j /\ InOneChunkedCall(i, j)) => log[i].chunk <= log[j].chunk

\* anonymizeTextChunked back from a text with entities in two chunks, the
\* maps holding pairs of an earlier call
C13_Witness ==
    /\ step = "chunked_return"
    /\ ret # text
    /\ SomeMapFilled /\ \E type \in ENTITY_TYPES : DOMAIN mapsAtChunked[type] # {}
    /\ \E i \in 1..Len(log) :
          InOneChunkedCall(i, Len(log)) /\ log[i].chunk # Last(log).chunk

\* C14: the chunks of anonymizeTextChunked are contiguous pieces of the text
\* of CHUNK_SIZE characters each, but the last, which has from 1 to
\* CHUNK_SIZE; they do not overlap and their concatenation is the text (no
\* chunk for the empty text).
C14_ChunksPartitionText ==
    (step = "split") =>
        /\ \A k \in 1..Len(chunks) :
              /\ chunks[k] = SubSeq(text, (k - 1) * CHUNK_SIZE + 1,
                                    (k - 1) * CHUNK_SIZE + Len(chunks[k]))
              /\ Len(chunks[k]) >= 1 /\ Len(chunks[k]) <= CHUNK_SIZE
              /\ k < Len(chunks) => Len(chunks[k]) = CHUNK_SIZE
        /\ Join(chunks, <<>>) = text
        /\ (text = <<>>) => (chunks = <<>>)

\* a text of three chunks or more, the last one shorter
C14_Witness ==
    /\ step = "split"
    /\ Len(chunks) >= 3
    /\ Len(Last(chunks)) < CHUNK_SIZE

\* C16: anonymizeText turns TextExample into "Contattare <name> al numero
\* <phone> o via email a <address>": the three values replaced by generated
\* ones and the words around them kept as they are.
C16_ExampleKeepsLiterals ==
    (step = "text_return" /\ chunk = TextExample) =>
        \E person \in FakePersons, phone \in FakePhones, email \in FakeEmails :
            result = <<"C","o","n","t","a","t","t","a","r","e"," ">> \o person
                     \o <<" ","a","l"," ","n","u","m","e","r","o"," ">> \o phone
                     \o <<" ","o"," ","v","i","a"," ","e","m","a","i","l"," ","a"," ">> \o email

\* C17: when the loop of anonymizeText comes to an entity, result is still
\* the text up to the end of the entity, so result[start:end] is its value.
C17_OffsetsStillValid ==
    (pc = "text_loop" /\ entIdx <= Len(entities)) =>
        LET e == entities[entIdx]
        IN  /\ Substring(result, 0, e.end) = Substring(chunk, 0, e.end)
            /\ Substring(result, e.start, e.end) = e.value

\* entities a and b of es have spans without a common offset
Apart(es, a, b) == es[a].end <= es[b].start \/ es[b].end <= es[a].start

\* C18: two entities of the same type returned by detectEntities never
\* overlap.
C18_SameTypeDisjoint ==
    (step = "detectEntities") =>
        \A a, b \in 1..Len(ret) :
            (a # b /\ ret[a].type = ret[b].type) => Apart(ret, a, b)

\* two entities of one type next to each other, and entities of two types
\* that overlap
C18_Witness ==
    /\ step = "detectEntities"
    /\ \E a, b \in 1..Len(ret) :
          a # b /\ ret[a].type = ret[b].type /\ ret[a].end = ret[b].start
    /\ \E a, b \in 1..Len(ret) :
          ret[a].type # ret[b].type /\ ~Apart(ret, a, b)

\* C19: a PERSON entity holds words separated by one space each: no line
\* break, no tab and no two white-space characters in a row.
C19_PersonSingleSpaces ==
    (step = "detectEntities") =>
        \A k \in 1..Len(ret) :
            (ret[k].type = "PERSON") =>
                LET v == ret[k].value
                IN  /\ \A p \in 1..Len(v) : v[p] \in WhiteSpace => v[p] = " "
                    /\ \A p \in 1..(Len(v) - 1) :
                          ~(v[p] \in WhiteSpace /\ v[p + 1] \in WhiteSpace)

\* log[i] is a getFakeValue call
IsGet(i) == log[i].op = "getFakeValue"

\* C20: the driver works on one file at a time: resetMaps for a file comes
\* after the write of the file before it, the getFakeValue calls of a file
\* are not interleaved with anything else, the chunks of a file are taken in
\* order and the entities of a chunk in descending order of start.
C20_OneFileAtATime ==
    /\ \A i, j \in 1..Len(log) : i < j => log[i].file <= log[j].file
    /\ \A j \in 1..Len(log) :
          (log[j].op = "resetMaps") =>
              IF j = 1 THEN log[j].file = 1
              ELSE log[j - 1].op = "write" /\ log[j - 1].file + 1 = log[j].file
    /\ (step = "resetMaps") => Len(outputs) = fileIdx - 1
    /\ \A i, j \in 1..Len(log) :
          (i < j /\ IsGet(i) /\ IsGet(j) /\ log[i].file = log[j].file) =>
              /\ \A k \in i..j : IsGet(k) /\ log[k].file = log[i].file
              /\ log[i].chunk <= log[j].chunk
              /\ log[i].chunk = log[j].chunk => log[i].entity < log[j].entity
    /\ (pc = "text_loop") =>
          \A k \in 1..(Len(entities) - 1) : entities[k].start >= entities[k + 1].start

\* main done with two files, the second with entities in two chunks and two
\* entities in one of them
C20_Witness ==
    /\ mode = "main" /\ step = "end"
    /\ \E i \in 1..Len(log) : IsGet(i) /\ log[i].file = 1
    /\ \E i, j, k \in 1..Len(log) :
          /\ IsGet(i) /\ IsGet(j) /\ IsGet(k)
          /\ log[i].file = 2 /\ log[j].file = 2 /\ log[k].file = 2
          /\ log[i].chunk # log[j].chunk
          /\ log[j].chunk = log[k].chunk /\ log[j].entity # log[k].entity

\* C21: the value getFakeValue stores for a pair it sees for the first time
\* comes from the type alone: whatever the original value, the values it can
\* return are those generateFakeValue(type) can return, the same for any two
\* original values of the type.
C21_FakeFromTypeAlone ==
    /\ \A type \in ENTITY_TYPES :
          \A v1, v2 \in OriginalValues :
              (~MapHas(entityMaps[type], v1) /\ ~MapHas(entityMaps[type], v2)) =>
                  /\ PossibleResults(entityMaps, type, v1) = generateFakeValue(type)
                  /\ PossibleResults(entityMaps, type, v2)
                         = PossibleResults(entityMaps, type, v1)
    /\ \A j \in 1..Len(log) :
          (IsGet(j) /\ log[j].changed) => log[j].result \in generateFakeValue(log[j].type)

\* two original values of one type given the same value in one session by a
\* generator that had another value to give
C21_Witness ==
    \E i, j \in 1..Len(log) :
        /\ IsGet(i) /\ IsGet(j)
        /\ log[i].changed /\ log[j].changed
        /\ NoResetBetween(i, j)
        /\ log[i].type = log[j].type /\ log[i].value # log[j].value
        /\ log[i].result = log[j].result
        /\ Cardinality(generateFakeValue(log[i].type)) > 1

\* one step of the maps between two resetMaps: the steps of getFakeValue add
\* the pair of the call, if it is new, to the map of its type, with the value
\* the call returns; no other step changes a map; no pair is ever removed
\* or given another value
MapsGrow ==
    /\ (step' # "resetMaps") => Extends(entityMaps', entityMaps)
    /\ (step' \notin {"resetMaps", "getFakeValue", "substitute"}) => entityMaps' = entityMaps
    /\ (step' \in {"getFakeValue", "substitute"}) =>
          LET call == log'[Len(log')]
          IN  /\ MapHas(entityMaps'[call.type], call.value)
              /\ entityMaps'[call.type][call.value] = call.result
              /\ DOMAIN entityMaps'[call.type]
                     = DOMAIN entityMaps[call.type] \cup {call.value}
              /\ \A type \in ENTITY_TYPES \ {call.type} :
                     entityMaps'[type] = entityMaps[type]

\* C22: between two resetMaps calls the maps only grow: a pair is stored by
\* its first getFakeValue call, under the map of its type, and is never
\* overwritten or removed by a later call; detectEntities changes no map.
C22_MapsOnlyGrow == [][MapsGrow]_vars

\* pairs of two types stored in one session, one of them found again by a
\* later call
C22_Witness ==
    /\ pc = "idle"
    /\ Cardinality({type \in ENTITY_TYPES : DOMAIN entityMaps[type] # {}}) >= 2
    /\ \E i, j \in 1..Len(log) :
          SamePair(i, j) /\ NoResetBetween(i, Len(log)) /\ ~log[j].changed

\* the maps anonymizeText leaves when called on a text with entities es and
\* maps before, the generator giving each new pair the value it has in after
StoredAfter(before, es, after) ==
    [type \in ENTITY_TYPES |->
        LET new == {es[k].value : k \in {m \in 1..Len(es) : es[m].type = type}}
        IN  [key \in DOMAIN before[type] \cup new |->
                IF MapHas(before[type], key) THEN before[type][key] ELSE after[type][key]]]

\* called on t with the maps before, the call returned out and left the
\* maps after: what anonymizeText(t) returns and leaves when the generator
\* makes the choices recorded in after
AsAnonymizeText(t, before, out, after) ==
    /\ out = Replay(t, detectEntities(t), 1, after)
    /\ after = StoredAfter(before, detectEntities(t), after)

\* the step of anonymizeTextChunked after the split of the empty text is its
\* return of the empty string
EmptyTextReturnsAtOnce ==
    (step = "split" /\ text = <<>>) =>
        (step' = "chunked_return" /\ ret' = <<>> /\ entityMaps' = entityMaps
         /\ log' = log /\ lastIndex' = lastIndex)

\* C23: on a text of CHUNK_SIZE characters at most, anonymizeTextChunked
\* returns and stores what anonymizeText does from the same maps with the
\* same generated values; on the empty text it returns the empty string and
\* calls neither detectEntities nor getFakeValue.
C23_ShortTextSameAsWhole ==
    /\ [](/\ (step = "text_return" /\ textCaller = "api")
               => AsAnonymizeText(chunk, mapsAtText, ret, entityMaps)
          /\ (step = "chunked_return" /\ Len(text) <= CHUNK_SIZE)
               => AsAnonymizeText(text, mapsAtChunked, ret, entityMaps))
    /\ [][EmptyTextReturnsAtOnce]_vars

\* anonymizeTextChunked back from a text of one chunk with two entities,
\* one of them stored by an earlier call
C23_Witness ==
    /\ step = "chunked_return"
    /\ Len(chunks) = 1 /\ Len(entities) >= 2
    /\ entityMaps # mapsAtChunked
    /\ \E k \in 1..Len(entities) : MapHas(mapsAtChunked[entities[k].type], entities[k].value)

\* the count categories_stats.csv gives for a category, read the way
\* csv.ts lines 73-87 read a statistics file
AggregateCount(category) ==
    IF Exists(AggregateFile) THEN GetOrZero(AddFile(<<>>, FileText(AggregateFile)), category)
    ELSE 0

\* C24: after every run of the pipeline, also after several runs on one
\* day, categories_stats.csv gives for every category the number of
\* questions classified into it over all runs so far, and the file was not
\* among the files aggregateAllCsvFiles read
C24_AggregateIsTotalOfAllRuns ==
    fstep = "aggregate" =>
        /\ \A c \in CATEGORIES : AggregateCount(c) = classifiedSoFar[c]
        /\ AggregateFile \notin filesRead

\* totalQuestionsProcessed as the state file holds it; loadState gives 0
\* while there is no file
PersistedTotal(file) == IF file = <<>> THEN 0 ELSE file[1].totalQuestionsProcessed

\* the statement executed last wrote the state file (saveState at line 45
\* or line 113)
StateFileWritten ==
    \/ fstep = "save_state"
    \/ fstep = "no_questions" /\ traces[1].timestamp # 0

\* C25 as stated: the persisted total never falls below what it was when
\* the run started, a run that reaches its end has raised it by exactly the
\* number of questions it extracted, the state file is written only once
\* the run has written its daily statistics file, and a run without traces
\* leaves the state file as it was
C25_StateWrittenOnlyAfterDailyStats ==
    /\ PersistedTotal(stateFile) >= PersistedTotal(stateAtStart)
    /\ fstep = "aggregate" =>
           PersistedTotal(stateFile) = PersistedTotal(stateAtStart) + Len(questions)
    /\ StateFileWritten => statsWritten
    /\ (fstep = "aggregate" /\ Len(traces) = 0) => stateFile = stateAtStart

\* no step lowers the persisted total
TotalNotLowered == PersistedTotal(stateFile') >= PersistedTotal(stateFile)

\* C25, amended: the persisted totalQuestionsProcessed never decreases; a run
\* that reaches its end has raised it by exactly the number of questions it
\* extracted and a run classifyBatch ends with an exception has left the
\* state file as it was; in a run that extracted questions the state file
\* is written only once the daily statistics file has been written, and in
\* a run whose traces hold no question it is written without one, the
\* timestamp alone changed; a run without traces leaves the state file as
\* it was
C25_StateWrittenAfterStatsWhenQuestions ==
    /\ [](/\ fstep = "aggregate" =>
                 PersistedTotal(stateFile) = PersistedTotal(stateAtStart) + Len(questions)
          /\ fstep = "classify_failed" => stateFile = stateAtStart
          /\ (StateFileWritten /\ Len(questions) # 0) => statsWritten
          /\ (StateFileWritten /\ Len(questions) = 0) =>
                 /\ ~statsWritten
                 /\ PersistedTotal(stateFile) = PersistedTotal(stateAtStart)
                 /\ stateFile[1].lastProcessedTimestamp = traces[1].timestamp
          /\ (fstep = "aggregate" /\ Len(traces) = 0) => stateFile = stateAtStart)
    /\ [][TotalNotLowered]_vars

\* a second run that extracted two questions has saved its state after its
\* daily file, on top of the total of the first run
C25_Witness ==
    /\ fstep = "aggregate" /\ runs = 2
    /\ Len(questions) = 2 /\ statsWritten
    /\ PersistedTotal(stateAtStart) > 0
    /\ PersistedTotal(stateFile) = PersistedTotal(stateAtStart) + 2

====
